---- MODULE Spec2Model ----
(***************************************************************************)
(* Dynamic vat creation in the SwingSet kernel:                            *)
(* packages/SwingSet/src/kernel/dynamicVat.js.                             *)
(*                                                                         *)
(* createVatDynamically allocates a vatID and a meter, schedules a promise *)
(* chain                                                                   *)
(*    makeBuildRootObject -> makeVatManager                                *)
(*      -> (makeSuccessResponse | makeErrorResponse) -> sendResponse       *)
(*      -> catch(console.error)                                            *)
(* and returns the vatID.  Every link of the chain is a separate job of    *)
(* the JavaScript promise queue: it runs only when no synchronous code is  *)
(* on the stack.  The kernel services handed in through `stuff`            *)
(* (allocateUnusedVatID, addVatManager, addExport, queueToExport, ...) and *)
(* importBundle are the environment: each call that can throw is a choice  *)
(* between returning and throwing.                                         *)
(***************************************************************************)
EXTENDS Integers, Sequences, FiniteSets, TLC

\* Number of creation requests the vatAdmin device issues.
MaxVats == 2
\* Number of events of the environment: a call of a kernel service
\* (addVatManager, addExport, vatNameToID or queueToExport) that throws in a
\* promise chain, the termination of a vat (the first invocation of its
\* notifyTermination callback, whether or not queueToExport throws in it),
\* or a vat running out of its budget (until its meter is refilled).
MaxEvents == 1

\* First value handed out by allocateUnusedVatID; the vatID `v${n}` is n.
FirstVatID == 10
\* First kernel slot handed out by the export table; `ko${n}` is n.
FirstKernelSlot == 42
\* vatNameToID('vatAdmin')
AdminVatID == 1

Requests == 1..MaxVats
\* The vatIDs allocateUnusedVatID hands out to them.
VatIDs == FirstVatID..(FirstVatID + MaxVats - 1)

----------------------------------------------------------------------------
(* Values *)

\* The vatSourceBundle arguments: typeof, whether importBundle can evaluate
\* it, and whether the resulting namespace has a buildRootObject function.
StringBundle == [typeof |-> "string", loads |-> FALSE, buildRootObject |-> "undefined"]
GoodBundle == [typeof |-> "object", loads |-> TRUE, buildRootObject |-> "function"]
NoEntryBundle == [typeof |-> "object", loads |-> TRUE, buildRootObject |-> "undefined"]
BrokenBundle == [typeof |-> "object", loads |-> FALSE, buildRootObject |-> "undefined"]
Bundles == {StringBundle, GoodBundle, NoEntryBundle, BrokenBundle}
NoBundle == [typeof |-> "undefined", loads |-> FALSE, buildRootObject |-> "undefined"]

\* Error(message) and the errors of the environment.
Error(message) == [kind |-> "error", name |-> "Error", message |-> message]
InvalidBundleMessage == "createVatDynamically() requires bundle, not a plain string"
MissingEntryPointMessage == "vat source bundle does not export buildRootObject function"
ImportError == [kind |-> "error", name |-> "SyntaxError", message |-> "bundle does not evaluate"]
AddVatManagerError == Error("addVatManager failed")
AddExportError == Error("addExport failed")
QueueToExportError == Error("queueToExport failed")
NoValue == [kind |-> "undefined"]

\* `${error}` on an Error object: Error.prototype.toString.
ErrorToString_messageOnly(error) == error.message

ErrorToString(error) == error.name \o ": " \o error.message

\* makeVatSlot(type, allocatedByVat, id) of parseVatSlots.
makeVatSlot(type, allocatedByVat, id) ==
  [type |-> type, allocatedByVat |-> allocatedByVat, id |-> id]

makeVatRootObjectSlot == makeVatSlot("object", TRUE, 0)

\* makeGetMeter(options): the meter record of one vat.
makeGetMeter(r, options) ==
  [getMeter |-> r,
   refillEachCrank |-> options.refillEachCrank,
   refillIfExhausted |-> options.refillIfExhausted]
NoMeter == [getMeter |-> 0, refillEachCrank |-> FALSE, refillIfExhausted |-> FALSE]

----------------------------------------------------------------------------
(* State *)

VARIABLES
  nextVatID,     \* counter behind allocateUnusedVatID
  pc,            \* per request: position of its promise chain
  vatID,         \* per request: const vatID (0 before the request)
  bundle,        \* per request: vatSourceBundle
  meterRecord,   \* per request: const meterRecord
  terminated,    \* per request: let terminated
  loadMode,      \* per request: how importBundle's promise settles
  chainValue,    \* per request: value or reason carried to the next link
  vatManagers,   \* kernel registry filled by addVatManager
  exports,       \* kernel export table filled by addExport
  nextKernelSlot,\* counter behind the export table
  runQueue,      \* per vatID cited: the messages queueToExport appended, in order
  consoleLog,    \* console.error calls of the chain's catch
  uncaught,      \* requests whose chain ended in an unhandled rejection
  calls,         \* history: <<function, vatID>> for every kernel service called
  termCalls,     \* per request: notifyTermination invoked 0, 1, or 2 and more times
  crank,         \* "none", "vatAdmin" (the requester's crank) or "other"
  running,       \* the requester's synchronous code is on the stack
  unitCreated,   \* requests made by the synchronous code now on the stack
  thrown,        \* history: <<call site, vatID>> of the kernel service calls that threw
  exhausted,     \* per request: the exhausted flag of its meter
  imports        \* history: the options of every importBundle call

vars == <<nextVatID, pc, vatID, bundle, meterRecord, terminated, loadMode,
          chainValue, vatManagers, exports, nextKernelSlot, runQueue,
          consoleLog, uncaught, calls, termCalls, crank, running, unitCreated,
          thrown, exhausted, imports>>

Init ==
  /\ nextVatID = FirstVatID
  /\ pc = [r \in Requests |-> "idle"]
  /\ vatID = [r \in Requests |-> 0]
  /\ bundle = [r \in Requests |-> NoBundle]
  /\ meterRecord = [r \in Requests |-> NoMeter]
  /\ terminated = [r \in Requests |-> FALSE]
  /\ loadMode = [r \in Requests |-> "none"]
  /\ chainValue = [r \in Requests |-> NoValue]
  /\ vatManagers = {}
  /\ exports = {}
  /\ nextKernelSlot = FirstKernelSlot
  /\ runQueue = [v \in VatIDs |-> <<>>]
  /\ consoleLog = {}
  /\ uncaught = {}
  /\ calls = {}
  /\ termCalls = [r \in Requests |-> 0]
  /\ crank = "none"
  /\ running = FALSE
  /\ unitCreated = {}
  /\ thrown = {}
  /\ exhausted = [r \in Requests |-> FALSE]
  /\ imports = {}

\* A job of the request's chain is in the promise queue (or will be put
\* there within this turn of the event loop).
JobPending_deferredSend(r) ==
  \/ pc[r] \in {"Requested", "Built", "Registered", "Failed", "Rejected"}
  \/ pc[r] = "Loading" /\ loadMode[r] = "prompt"

JobPending(r) ==
  \/ pc[r] \in {"Requested", "Built", "Registered", "Failed",
                "Composed", "Rejected"}
  \/ pc[r] = "Loading" /\ loadMode[r] = "prompt"

PromiseQueueEmpty == \A r \in Requests : ~JobPending(r)

----------------------------------------------------------------------------
(* The kernel's cranks and the requester's synchronous code *)

\* The kernel starts a crank once the previous one has ended and the promise
\* queue has drained.  In the vatAdmin crank the device's synchronous code,
\* which calls createVatDynamically, is on the stack; a crank of the vatAdmin
\* vat that can make no request is a crank like any other.  A meter with
\* refillEachCrank is refilled when a crank starts.
StartCrank(c) ==
  /\ crank = "none"
  /\ PromiseQueueEmpty
  /\ c = "vatAdmin" => \E r \in Requests : pc[r] = "idle"
  /\ crank' = c
  /\ running' = (c = "vatAdmin")
  /\ exhausted' = [r \in Requests |->
       exhausted[r] /\ ~meterRecord[r].refillEachCrank]
  /\ UNCHANGED <<nextVatID, pc, vatID, bundle, meterRecord, terminated,
                 loadMode, chainValue, vatManagers, exports, nextKernelSlot,
                 runQueue, consoleLog, uncaught, calls, termCalls, unitCreated, thrown,
                 imports>>

\* The requester's synchronous code returns: the promise queue may run.
EndUnit ==
  /\ running
  /\ running' = FALSE
  /\ unitCreated' = {}
  /\ UNCHANGED <<nextVatID, pc, vatID, bundle, meterRecord, terminated,
                 loadMode, chainValue, vatManagers, exports, nextKernelSlot,
                 runQueue, consoleLog, uncaught, calls, termCalls, crank, thrown,
                 exhausted, imports>>

\* The crank ends (setImmediate fires) after the promise queue has drained.
EndCrank ==
  /\ crank # "none"
  /\ ~running
  /\ PromiseQueueEmpty
  /\ crank' = "none"
  /\ UNCHANGED <<nextVatID, pc, vatID, bundle, meterRecord, terminated,
                 loadMode, chainValue, vatManagers, exports, nextKernelSlot,
                 runQueue, consoleLog, uncaught, calls, termCalls, running,
                 unitCreated, thrown,
                 exhausted, imports>>

----------------------------------------------------------------------------
(* createVatDynamically and the links of its promise chain *)

\* The options makeBuildRootObject passes to importBundle: the file prefix
\* and the getMeter that the metering transform and the global lexicals
\* thread through the vat's code.
importOptions(filePrefix, getMeter) ==
  [filePrefix |-> filePrefix, getMeter |-> getMeter]

\* allocateUnusedVatID(): the next unused vatID of the kernel's counter.
allocateUnusedVatID == nextVatID

\* The synchronous body: allocate the vatID and the meter, schedule the
\* chain (Promise.resolve().then(makeBuildRootObject)...), return the vatID.
createVatDynamically_sync(r, vatSourceBundle) ==
  /\ running
  /\ pc[r] = "idle"
  /\ \A q \in Requests : q < r => pc[q] # "idle"
  /\ vatID' = [vatID EXCEPT ![r] = allocateUnusedVatID]
  /\ nextVatID' = nextVatID + 1
  /\ meterRecord' = [meterRecord EXCEPT ![r] =
       makeGetMeter(r, [refillEachCrank |-> FALSE, refillIfExhausted |-> FALSE])]
  /\ terminated' = [terminated EXCEPT ![r] = FALSE]
  /\ bundle' = [bundle EXCEPT ![r] = vatSourceBundle]
  /\ unitCreated' = unitCreated \cup {r}
  /\ IF vatSourceBundle.typeof # "object"
       THEN /\ pc' = [pc EXCEPT ![r] = "Failed"]
            /\ chainValue' = [chainValue EXCEPT ![r] = Error(InvalidBundleMessage)]
            /\ UNCHANGED <<loadMode, calls, imports>>
       ELSE /\ pc' = [pc EXCEPT ![r] = "Loading"]
            /\ loadMode' = [loadMode EXCEPT ![r] = "prompt"]
            /\ calls' = calls \cup {<<"makeVatEndowments", nextVatID>>,
                                    <<"importBundle", nextVatID>>}
            /\ imports' = imports \cup {importOptions(nextVatID, r)}
            /\ UNCHANGED chainValue
  /\ UNCHANGED <<vatManagers, exports, nextKernelSlot, runQueue, consoleLog,
                 uncaught, termCalls, crank, running, thrown,
                 exhausted>>

createVatDynamically_refilling(r, vatSourceBundle) ==
  /\ running
  /\ pc[r] = "idle"
  /\ \A q \in Requests : q < r => pc[q] # "idle"
  /\ vatID' = [vatID EXCEPT ![r] = allocateUnusedVatID]
  /\ nextVatID' = nextVatID + 1
  /\ meterRecord' = [meterRecord EXCEPT ![r] =
       makeGetMeter(r, [refillEachCrank |-> TRUE, refillIfExhausted |-> FALSE])]
  /\ terminated' = [terminated EXCEPT ![r] = FALSE]
  /\ bundle' = [bundle EXCEPT ![r] = vatSourceBundle]
  /\ pc' = [pc EXCEPT ![r] = "Requested"]
  /\ unitCreated' = unitCreated \cup {r}
  /\ UNCHANGED <<loadMode, chainValue, vatManagers, exports, nextKernelSlot,
                 runQueue, consoleLog, uncaught, calls, termCalls, crank,
                 running, thrown,
                 exhausted, imports>>

createVatDynamically(r, vatSourceBundle) ==
  /\ running
  /\ pc[r] = "idle"
  /\ \A q \in Requests : q < r => pc[q] # "idle"
  /\ vatID' = [vatID EXCEPT ![r] = allocateUnusedVatID]
  /\ nextVatID' = nextVatID + 1
  /\ meterRecord' = [meterRecord EXCEPT ![r] =
       makeGetMeter(r, [refillEachCrank |-> FALSE, refillIfExhausted |-> FALSE])]
  /\ terminated' = [terminated EXCEPT ![r] = FALSE]
  /\ bundle' = [bundle EXCEPT ![r] = vatSourceBundle]
  /\ pc' = [pc EXCEPT ![r] = "Requested"]
  /\ unitCreated' = unitCreated \cup {r}
  /\ UNCHANGED <<loadMode, chainValue, vatManagers, exports, nextKernelSlot,
                 runQueue, consoleLog, uncaught, calls, termCalls, crank,
                 running, thrown,
                 exhausted, imports>>

\* makeBuildRootObject up to its await: the typeof check, then
\* makeVatEndowments(vatID) and the call of importBundle.  The awaited
\* promise settles within this turn of the event loop ("prompt") or in a
\* later one ("late"); an exception of the two calls rejects the async
\* function like a rejection of the awaited promise.
makeBuildRootObject_returns(r) ==
  /\ ~running
  /\ pc[r] = "Requested"
  /\ IF bundle[r].typeof # "object"
       THEN /\ pc' = [pc EXCEPT ![r] = "Built"]
            /\ chainValue' = [chainValue EXCEPT ![r] = Error(InvalidBundleMessage)]
            /\ UNCHANGED <<loadMode, calls, imports>>
       ELSE \E outcome \in {"prompt", "late"} :
              /\ calls' = calls \cup {<<"makeVatEndowments", vatID[r]>>,
                                      <<"importBundle", vatID[r]>>}
              /\ imports' = imports \cup
                   {importOptions(vatID[r], meterRecord[r].getMeter)}
              /\ pc' = [pc EXCEPT ![r] = "Loading"]
              /\ loadMode' = [loadMode EXCEPT ![r] = outcome]
              /\ UNCHANGED chainValue
  /\ UNCHANGED <<nextVatID, vatID, bundle, meterRecord, terminated,
                 vatManagers, exports, nextKernelSlot, runQueue, consoleLog,
                 uncaught, termCalls, crank, running, unitCreated, thrown,
                 exhausted>>

makeBuildRootObject_otherMeter(r) ==
  /\ ~running
  /\ pc[r] = "Requested"
  /\ IF bundle[r].typeof # "object"
       THEN /\ pc' = [pc EXCEPT ![r] = "Failed"]
            /\ chainValue' = [chainValue EXCEPT ![r] = Error(InvalidBundleMessage)]
            /\ UNCHANGED <<loadMode, calls, imports>>
       ELSE \E outcome \in {"prompt", "late"} :
              /\ calls' = calls \cup {<<"makeVatEndowments", vatID[r]>>,
                                      <<"importBundle", vatID[r]>>}
              /\ imports' = imports \cup
                   {importOptions(vatID[r], NoMeter.getMeter)}
              /\ pc' = [pc EXCEPT ![r] = "Loading"]
              /\ loadMode' = [loadMode EXCEPT ![r] = outcome]
              /\ UNCHANGED chainValue
  /\ UNCHANGED <<nextVatID, vatID, bundle, meterRecord, terminated,
                 vatManagers, exports, nextKernelSlot, runQueue, consoleLog,
                 uncaught, termCalls, crank, running, unitCreated, thrown,
                 exhausted>>

makeBuildRootObject(r) ==
  /\ ~running
  /\ pc[r] = "Requested"
  /\ IF bundle[r].typeof # "object"
       THEN /\ pc' = [pc EXCEPT ![r] = "Failed"]
            /\ chainValue' = [chainValue EXCEPT ![r] = Error(InvalidBundleMessage)]
            /\ UNCHANGED <<loadMode, calls, imports>>
       ELSE \E outcome \in {"prompt", "late"} :
              /\ calls' = calls \cup {<<"makeVatEndowments", vatID[r]>>,
                                      <<"importBundle", vatID[r]>>}
              /\ imports' = imports \cup
                   {importOptions(vatID[r], meterRecord[r].getMeter)}
              /\ pc' = [pc EXCEPT ![r] = "Loading"]
              /\ loadMode' = [loadMode EXCEPT ![r] = outcome]
              /\ UNCHANGED chainValue
  /\ UNCHANGED <<nextVatID, vatID, bundle, meterRecord, terminated,
                 vatManagers, exports, nextKernelSlot, runQueue, consoleLog,
                 uncaught, termCalls, crank, running, unitCreated, thrown,
                 exhausted>>

\* importBundle's promise has settled and makeBuildRootObject resumes after
\* its await: a bundle that does not evaluate rejects it with importBundle's
\* error, otherwise the entry-point check decides.
ImportResult(vatSourceBundle) ==
  IF vatSourceBundle.loads
    THEN [kind |-> "namespace", buildRootObject |-> vatSourceBundle.buildRootObject]
    ELSE ImportError

resumeBuildRootObject_unchecked(r) ==
  /\ ~running
  /\ pc[r] = "Loading"
  /\ loadMode' = [loadMode EXCEPT ![r] = "none"]
  /\ IF ImportResult(bundle[r]).kind = "error"
       THEN /\ pc' = [pc EXCEPT ![r] = "Failed"]
            /\ chainValue' = [chainValue EXCEPT ![r] = ImportResult(bundle[r])]
       ELSE /\ pc' = [pc EXCEPT ![r] = "Built"]
            /\ chainValue' = [chainValue EXCEPT ![r] =
                 [kind |-> "buildRootObject", of |-> vatID[r]]]
  /\ UNCHANGED <<nextVatID, vatID, bundle, meterRecord, terminated,
                 vatManagers, exports, nextKernelSlot, runQueue, consoleLog,
                 uncaught, calls, termCalls, crank, running, unitCreated, thrown,
                 exhausted, imports>>

resumeBuildRootObject(r) ==
  /\ ~running
  /\ pc[r] = "Loading"
  /\ loadMode' = [loadMode EXCEPT ![r] = "none"]
  /\ IF ImportResult(bundle[r]).kind = "error"
       THEN /\ pc' = [pc EXCEPT ![r] = "Failed"]
            /\ chainValue' = [chainValue EXCEPT ![r] = ImportResult(bundle[r])]
       ELSE IF ImportResult(bundle[r]).buildRootObject # "function"
         THEN /\ pc' = [pc EXCEPT ![r] = "Failed"]
              /\ chainValue' = [chainValue EXCEPT ![r] =
                   Error(MissingEntryPointMessage)]
         ELSE /\ pc' = [pc EXCEPT ![r] = "Built"]
              /\ chainValue' = [chainValue EXCEPT ![r] =
                   [kind |-> "buildRootObject", of |-> vatID[r]]]
  /\ UNCHANGED <<nextVatID, vatID, bundle, meterRecord, terminated,
                 vatManagers, exports, nextKernelSlot, runQueue, consoleLog,
                 uncaught, calls, termCalls, crank, running, unitCreated, thrown,
                 exhausted, imports>>

----------------------------------------------------------------------------
(* Kernel services *)

\* The vats whose notifyTermination has been invoked.
TerminatedVats == {r \in Requests : terminated[r]}

\* The calls of kernel services that threw in a promise chain.
ChainThrows == {t \in thrown : t[1] # "notifyTermination"}

\* The vats whose meter is exhausted.
ExhaustedVats == {r \in Requests : exhausted[r]}

\* The environment may still act: throw from a kernel service in a chain,
\* terminate another vat, or let another vat run out of budget.
EventsLeft ==
  Cardinality(TerminatedVats) + Cardinality(ChainThrows)
    + Cardinality(ExhaustedVats) < MaxEvents

\* A call of a kernel service returns (TRUE) or throws (FALSE).
Outcomes == IF EventsLeft THEN {TRUE, FALSE} ELSE {TRUE}

\* addVatManager(vatID, name, setup, options, meterRecord, notifyTermination)
\* when it returns: the registry holds the manager, its meter and its
\* termination callback (the callback of request r).
addVatManager(r, name) ==
  vatManagers \cup {[vatID |-> vatID[r], name |-> name,
                     meterRecord |-> meterRecord[r], notifyTermination |-> r]}

Registered(v) == \E m \in vatManagers : m.vatID = v

\* addExport(vatID, vatSlot): the kernel slot of the pair, allocated on the
\* first request for it.
HasExport(v, vatSlot) == \E e \in exports : e.vatID = v /\ e.vatSlot = vatSlot

ExportOf(v, vatSlot) == CHOOSE e \in exports : e.vatID = v /\ e.vatSlot = vatSlot

addExport(v, vatSlot) ==
  IF HasExport(v, vatSlot) THEN ExportOf(v, vatSlot).kernelSlot ELSE nextKernelSlot

\* queueToExport(vatID, vatSlot, method, args, resultPolicy) when it returns:
\* the message is at the end of the run queue.  The queue is kept as the
\* subsequence of the messages about each vat (the vatID that opens the
\* body); the order between messages about different vats is not kept.
queueToExport(v, vatSlot, method, args, resultPolicy) ==
  [runQueue EXCEPT ![args.body[1]] =
     Append(@, [vatID |-> v, vatSlot |-> vatSlot, method |-> method,
                args |-> args, resultPolicy |-> resultPolicy])]

----------------------------------------------------------------------------
(* Registration, the two responses, and the notification *)

\* makeVatManager(buildRootObject): addVatManager returns or throws.
makeVatManager_latestID(r) ==
  /\ ~running
  /\ pc[r] = "Built"
  /\ calls' = calls \cup {<<"addVatManager", vatID[r]>>}
  /\ \E returns \in Outcomes :
       /\ thrown' = IF returns THEN thrown
                    ELSE thrown \cup {<<"addVatManager", vatID[r]>>}
       /\ IF returns
            THEN /\ vatManagers' = vatManagers \cup
                      {[vatID |-> nextVatID - 1,
                        name |-> <<"dynamicVat", nextVatID - 1>>,
                        meterRecord |-> meterRecord[r],
                        notifyTermination |-> r]}
                 /\ pc' = [pc EXCEPT ![r] = "Registered"]
                 /\ chainValue' = [chainValue EXCEPT ![r] = NoValue]
            ELSE /\ pc' = [pc EXCEPT ![r] = "Failed"]
                 /\ chainValue' = [chainValue EXCEPT ![r] = AddVatManagerError]
                 /\ UNCHANGED vatManagers
  /\ UNCHANGED <<nextVatID, vatID, bundle, meterRecord, terminated, loadMode,
                 exports, nextKernelSlot, runQueue, consoleLog, uncaught,
                 termCalls, crank, running, unitCreated,
                 exhausted, imports>>

makeVatManager_unconverted(r) ==
  /\ ~running
  /\ pc[r] = "Built"
  /\ calls' = calls \cup {<<"addVatManager", vatID[r]>>}
  /\ \E returns \in Outcomes :
       /\ thrown' = IF returns THEN thrown
                    ELSE thrown \cup {<<"addVatManager", vatID[r]>>}
       /\ IF returns
            THEN /\ vatManagers' = addVatManager(r, <<"dynamicVat", vatID[r]>>)
                 /\ pc' = [pc EXCEPT ![r] = "Registered"]
                 /\ chainValue' = [chainValue EXCEPT ![r] = NoValue]
            ELSE /\ pc' = [pc EXCEPT ![r] = "Rejected"]
                 /\ chainValue' = [chainValue EXCEPT ![r] = AddVatManagerError]
                 /\ UNCHANGED vatManagers
  /\ UNCHANGED <<nextVatID, vatID, bundle, meterRecord, terminated, loadMode,
                 exports, nextKernelSlot, runQueue, consoleLog, uncaught,
                 termCalls, crank, running, unitCreated,
                 exhausted, imports>>

makeVatManager_unregistered(r) ==
  /\ ~running
  /\ pc[r] = "Built"
  /\ pc' = [pc EXCEPT ![r] = "Registered"]
  /\ chainValue' = [chainValue EXCEPT ![r] = NoValue]
  /\ UNCHANGED <<nextVatID, vatID, bundle, meterRecord, terminated, loadMode,
                 vatManagers, exports, nextKernelSlot, runQueue, consoleLog,
                 uncaught, calls, termCalls, crank, running, unitCreated,
                 thrown, exhausted, imports>>

makeVatManager_partial(r) ==
  /\ ~running
  /\ pc[r] = "Built"
  /\ calls' = calls \cup {<<"addVatManager", vatID[r]>>}
  /\ \E returns \in Outcomes :
       /\ thrown' = IF returns THEN thrown
                    ELSE thrown \cup {<<"addVatManager", vatID[r]>>}
       /\ IF returns
            THEN /\ vatManagers' = addVatManager(r, <<"dynamicVat", vatID[r]>>)
                 /\ pc' = [pc EXCEPT ![r] = "Registered"]
                 /\ chainValue' = [chainValue EXCEPT ![r] = NoValue]
            ELSE /\ pc' = [pc EXCEPT ![r] = "Failed"]
                 /\ chainValue' = [chainValue EXCEPT ![r] = AddVatManagerError]
                 /\ vatManagers' = addVatManager(r, <<"dynamicVat", vatID[r]>>)
  /\ UNCHANGED <<nextVatID, vatID, bundle, meterRecord, terminated, loadMode,
                 exports, nextKernelSlot, runQueue, consoleLog, uncaught,
                 termCalls, crank, running, unitCreated,
                 exhausted, imports>>

makeVatManager(r) ==
  /\ ~running
  /\ pc[r] = "Built"
  /\ calls' = calls \cup {<<"addVatManager", vatID[r]>>}
  /\ \E returns \in Outcomes :
       /\ thrown' = IF returns THEN thrown
                    ELSE thrown \cup {<<"addVatManager", vatID[r]>>}
       /\ IF returns
            THEN /\ vatManagers' = addVatManager(r, <<"dynamicVat", vatID[r]>>)
                 /\ pc' = [pc EXCEPT ![r] = "Registered"]
                 /\ chainValue' = [chainValue EXCEPT ![r] = NoValue]
            ELSE /\ pc' = [pc EXCEPT ![r] = "Failed"]
                 /\ chainValue' = [chainValue EXCEPT ![r] = AddVatManagerError]
                 /\ UNCHANGED vatManagers
  /\ UNCHANGED <<nextVatID, vatID, bundle, meterRecord, terminated, loadMode,
                 exports, nextKernelSlot, runQueue, consoleLog, uncaught,
                 termCalls, crank, running, unitCreated,
                 exhausted, imports>>

\* The value makeSuccessResponse returns.
SuccessArgs_firstSlot(r, kernelRootObjSlot) ==
  [kind |-> "args",
   body |-> <<vatID[r], [rootObject |-> [qclass |-> "slot", index |-> 0]]>>,
   slots |-> <<FirstKernelSlot>>]

SuccessArgs(r, kernelRootObjSlot) ==
  [kind |-> "args",
   body |-> <<vatID[r], [rootObject |-> [qclass |-> "slot", index |-> 0]]>>,
   slots |-> <<kernelRootObjSlot>>]

\* makeSuccessResponse(): runs when makeVatManager returned; addExport
\* returns or throws.  It is the fulfilment handler of the same then() whose
\* rejection handler is makeErrorResponse, so its own exception is not
\* handed to makeErrorResponse: the chain stays rejected.
makeSuccessResponse(r) ==
  /\ ~running
  /\ pc[r] = "Registered"
  /\ calls' = calls \cup {<<"addExport", vatID[r]>>}
  /\ \E returns \in Outcomes :
       /\ thrown' = IF returns THEN thrown
                    ELSE thrown \cup {<<"addExport", vatID[r]>>}
       /\ IF returns
            THEN /\ exports' = exports \cup
                      {[vatID |-> vatID[r], vatSlot |-> makeVatRootObjectSlot,
                        kernelSlot |-> addExport(vatID[r], makeVatRootObjectSlot)]}
                 /\ nextKernelSlot' =
                      IF HasExport(vatID[r], makeVatRootObjectSlot)
                        THEN nextKernelSlot ELSE nextKernelSlot + 1
                 /\ chainValue' = [chainValue EXCEPT ![r] =
                      SuccessArgs(r, addExport(vatID[r], makeVatRootObjectSlot))]
                 /\ pc' = [pc EXCEPT ![r] = "Composed"]
            ELSE /\ pc' = [pc EXCEPT ![r] = "Rejected"]
                 /\ chainValue' = [chainValue EXCEPT ![r] = AddExportError]
                 /\ UNCHANGED <<exports, nextKernelSlot>>
  /\ UNCHANGED <<nextVatID, vatID, bundle, meterRecord, terminated, loadMode,
                 vatManagers, runQueue, consoleLog, uncaught, termCalls,
                 crank, running, unitCreated,
                 exhausted, imports>>

\* The value makeErrorResponse returns.
ErrorArgs_withSlot(r, error) ==
  [kind |-> "args",
   body |-> <<vatID[r], [error |-> ErrorToString(error)]>>,
   slots |-> <<nextKernelSlot>>]

ErrorArgs(r, error) ==
  [kind |-> "args",
   body |-> <<vatID[r], [error |-> ErrorToString(error)]>>,
   slots |-> <<>>]

\* makeErrorResponse(error): runs when makeBuildRootObject or makeVatManager
\* rejected.
makeErrorResponse_terminating(r) ==
  /\ ~running
  /\ pc[r] = "Failed"
  /\ chainValue' = [chainValue EXCEPT ![r] = ErrorArgs(r, chainValue[r])]
  /\ pc' = [pc EXCEPT ![r] = "Composed"]
  /\ runQueue' = queueToExport(AdminVatID, makeVatRootObjectSlot,
                    "vatTerminated",
                    [kind |-> "args",
                     body |-> <<vatID[r], [qclass |-> "undefined"]>>,
                     slots |-> <<>>],
                    "logFailure")
  /\ UNCHANGED <<nextVatID, vatID, bundle, meterRecord, terminated, loadMode,
                 vatManagers, exports, nextKernelSlot, consoleLog,
                 uncaught, calls, termCalls, crank, running, unitCreated, thrown,
                 exhausted, imports>>

makeErrorResponse(r) ==
  /\ ~running
  /\ pc[r] = "Failed"
  /\ chainValue' = [chainValue EXCEPT ![r] = ErrorArgs(r, chainValue[r])]
  /\ pc' = [pc EXCEPT ![r] = "Composed"]
  /\ UNCHANGED <<nextVatID, vatID, bundle, meterRecord, terminated, loadMode,
                 vatManagers, exports, nextKernelSlot, runQueue, consoleLog,
                 uncaught, calls, termCalls, crank, running, unitCreated, thrown,
                 exhausted, imports>>

\* sendResponse(args): vatNameToID and queueToExport return, or one throws.
sendResponse_again(r) ==
  /\ ~running
  /\ pc[r] = "Composed"
  /\ calls' = calls \cup {<<"queueToExport", vatID[r]>>}
  /\ \E returns \in Outcomes :
       /\ thrown' = IF returns THEN thrown
                    ELSE thrown \cup {<<"sendResponse", vatID[r]>>}
       /\ IF returns
            THEN /\ runQueue' = queueToExport(AdminVatID, makeVatRootObjectSlot,
                                  "newVatCallback", chainValue[r], "logFailure")
                 /\ pc' = [pc EXCEPT ![r] =
                      IF runQueue[vatID[r]] = <<>> THEN "Composed" ELSE "Notified"]
                 /\ UNCHANGED chainValue
            ELSE /\ pc' = [pc EXCEPT ![r] = "Rejected"]
                 /\ chainValue' = [chainValue EXCEPT ![r] = QueueToExportError]
                 /\ UNCHANGED runQueue
  /\ UNCHANGED <<nextVatID, vatID, bundle, meterRecord, terminated, loadMode,
                 vatManagers, exports, nextKernelSlot, consoleLog, uncaught,
                 termCalls, crank, running, unitCreated,
                 exhausted, imports>>

sendResponse_retry(r) ==
  /\ ~running
  /\ pc[r] = "Composed"
  /\ calls' = calls \cup {<<"queueToExport", vatID[r]>>}
  /\ \E returns \in Outcomes :
       /\ thrown' = IF returns THEN thrown
                    ELSE thrown \cup {<<"sendResponse", vatID[r]>>}
       /\ IF returns
            THEN /\ runQueue' = queueToExport(AdminVatID, makeVatRootObjectSlot,
                                  "newVatCallback", chainValue[r], "logFailure")
                 /\ pc' = [pc EXCEPT ![r] = "Notified"]
                 /\ chainValue' = [chainValue EXCEPT ![r] = NoValue]
            ELSE UNCHANGED <<pc, chainValue, runQueue>>
  /\ UNCHANGED <<nextVatID, vatID, bundle, meterRecord, terminated, loadMode,
                 vatManagers, exports, nextKernelSlot, consoleLog, uncaught,
                 termCalls, crank, running, unitCreated,
                 exhausted, imports>>

sendResponse(r) ==
  /\ ~running
  /\ pc[r] = "Composed"
  /\ calls' = calls \cup {<<"queueToExport", vatID[r]>>}
  /\ \E returns \in Outcomes :
       /\ thrown' = IF returns THEN thrown
                    ELSE thrown \cup {<<"sendResponse", vatID[r]>>}
       /\ IF returns
            THEN /\ runQueue' = queueToExport(AdminVatID, makeVatRootObjectSlot,
                                  "newVatCallback", chainValue[r], "logFailure")
                 /\ pc' = [pc EXCEPT ![r] = "Notified"]
                 /\ chainValue' = [chainValue EXCEPT ![r] = NoValue]
            ELSE /\ pc' = [pc EXCEPT ![r] = "Rejected"]
                 /\ chainValue' = [chainValue EXCEPT ![r] = QueueToExportError]
                 /\ UNCHANGED runQueue
  /\ UNCHANGED <<nextVatID, vatID, bundle, meterRecord, terminated, loadMode,
                 vatManagers, exports, nextKernelSlot, consoleLog, uncaught,
                 termCalls, crank, running, unitCreated,
                 exhausted, imports>>

\* .catch(err => console.error(`error in createVatDynamically`, err)): the
\* last link handles the rejection of makeSuccessResponse or sendResponse.
catchError_absent(r) ==
  /\ ~running
  /\ pc[r] = "Rejected"
  /\ uncaught' = uncaught \cup {r}
  /\ pc' = [pc EXCEPT ![r] = "Logged"]
  /\ UNCHANGED <<nextVatID, vatID, bundle, meterRecord, terminated, loadMode,
                 chainValue, vatManagers, exports, nextKernelSlot, runQueue,
                 consoleLog, calls, termCalls, crank, running, unitCreated, thrown,
                 exhausted, imports>>

catchError(r) ==
  /\ ~running
  /\ pc[r] = "Rejected"
  /\ consoleLog' = consoleLog \cup
       {<<"error in createVatDynamically", vatID[r], chainValue[r]>>}
  /\ chainValue' = [chainValue EXCEPT ![r] = NoValue]
  /\ pc' = [pc EXCEPT ![r] = "Logged"]
  /\ UNCHANGED <<nextVatID, vatID, bundle, meterRecord, terminated, loadMode,
                 vatManagers, exports, nextKernelSlot, runQueue,
                 uncaught, calls, termCalls, crank, running, unitCreated, thrown,
                 exhausted, imports>>

----------------------------------------------------------------------------
(* Termination *)

\* The errors the kernel passes to notifyTermination: none, or an Error.
TerminationErrors == {NoValue, Error("boom")}

\* The args notifyTermination builds.
TerminationArgs_noError(r, error) ==
  [kind |-> "args",
   body |-> <<vatID[r], [qclass |-> "undefined"]>>,
   slots |-> <<>>]

TerminationArgs(r, error) ==
  [kind |-> "args",
   body |-> <<vatID[r],
              IF error.kind = "error"
                THEN [qclass |-> "error", name |-> error.name,
                      message |-> error.message]
                ELSE [qclass |-> "undefined"]>>,
   slots |-> <<>>]

\* notifyTermination(error), invoked by the kernel on a manager of its
\* registry, any number of times.  The flag is set before the message is
\* built and queued; vatNameToID and queueToExport return, or one throws.
notifyTermination_unguarded(r, error) ==
  /\ ~running
  /\ \E m \in vatManagers : m.notifyTermination = r
  /\ termCalls[r] < 2
  /\ terminated[r] \/ EventsLeft
  /\ termCalls' = [termCalls EXCEPT ![r] = @ + 1]
  /\ terminated' = [terminated EXCEPT ![r] = TRUE]
  /\ \E returns \in BOOLEAN :
       /\ thrown' = IF returns THEN thrown
                    ELSE thrown \cup {<<"notifyTermination", vatID[r]>>}
       /\ IF returns
            THEN runQueue' = queueToExport(AdminVatID, makeVatRootObjectSlot,
                   "vatTerminated", TerminationArgs(r, error), "logFailure")
            ELSE UNCHANGED runQueue
  /\ UNCHANGED <<nextVatID, pc, vatID, bundle, meterRecord, loadMode,
                 chainValue, vatManagers, exports, nextKernelSlot, consoleLog,
                 uncaught, calls, crank, running, unitCreated,
                 exhausted, imports>>

notifyTermination_early(r, error) ==
  /\ ~running
  /\ pc[r] # "idle"
  /\ IF terminated[r]
       THEN /\ termCalls' = [termCalls EXCEPT ![r] = 2]
            /\ UNCHANGED <<terminated, runQueue, thrown>>
       ELSE /\ EventsLeft
            /\ termCalls' = [termCalls EXCEPT ![r] = 1]
            /\ terminated' = [terminated EXCEPT ![r] = TRUE]
            /\ \E returns \in BOOLEAN :
                 /\ thrown' = IF returns THEN thrown
                              ELSE thrown \cup {<<"notifyTermination", vatID[r]>>}
                 /\ IF returns
                      THEN runQueue' = queueToExport(AdminVatID,
                             makeVatRootObjectSlot, "vatTerminated",
                             TerminationArgs(r, error), "logFailure")
                      ELSE UNCHANGED runQueue
  /\ UNCHANGED <<nextVatID, pc, vatID, bundle, meterRecord, loadMode,
                 chainValue, vatManagers, exports, nextKernelSlot, consoleLog,
                 uncaught, calls, crank, running, unitCreated,
                 exhausted, imports>>

notifyTermination_sharedFlag(r, error) ==
  /\ ~running
  /\ \E m \in vatManagers : m.notifyTermination = r
  /\ IF terminated[r]
       THEN /\ termCalls' = [termCalls EXCEPT ![r] = 2]
            /\ UNCHANGED <<terminated, runQueue, thrown>>
       ELSE /\ EventsLeft
            /\ termCalls' = [termCalls EXCEPT ![r] = 1]
            /\ terminated' = [q \in Requests |-> TRUE]
            /\ \E returns \in BOOLEAN :
                 /\ thrown' = IF returns THEN thrown
                              ELSE thrown \cup {<<"notifyTermination", vatID[r]>>}
                 /\ IF returns
                      THEN runQueue' = queueToExport(AdminVatID,
                             makeVatRootObjectSlot, "vatTerminated",
                             TerminationArgs(r, error), "logFailure")
                      ELSE UNCHANGED runQueue
  /\ UNCHANGED <<nextVatID, pc, vatID, bundle, meterRecord, loadMode,
                 chainValue, vatManagers, exports, nextKernelSlot, consoleLog,
                 uncaught, calls, crank, running, unitCreated,
                 exhausted, imports>>

notifyTermination(r, error) ==
  /\ ~running
  /\ \E m \in vatManagers : m.notifyTermination = r
  /\ IF terminated[r]
       THEN /\ termCalls' = [termCalls EXCEPT ![r] = 2]
            /\ UNCHANGED <<terminated, runQueue, thrown>>
       ELSE /\ EventsLeft
            /\ termCalls' = [termCalls EXCEPT ![r] = 1]
            /\ terminated' = [terminated EXCEPT ![r] = TRUE]
            /\ \E returns \in BOOLEAN :
                 /\ thrown' = IF returns THEN thrown
                              ELSE thrown \cup {<<"notifyTermination", vatID[r]>>}
                 /\ IF returns
                      THEN runQueue' = queueToExport(AdminVatID,
                             makeVatRootObjectSlot, "vatTerminated",
                             TerminationArgs(r, error), "logFailure")
                      ELSE UNCHANGED runQueue
  /\ UNCHANGED <<nextVatID, pc, vatID, bundle, meterRecord, loadMode,
                 chainValue, vatManagers, exports, nextKernelSlot, consoleLog,
                 uncaught, calls, crank, running, unitCreated,
                 exhausted, imports>>

----------------------------------------------------------------------------
(* The meter and the execution driver *)

\* The execution driver runs a step of a registered vat in a crank of that
\* vat: it checks the exhausted flag before the step, and the step uses up
\* the budget or leaves some.  A meter with refillIfExhausted is refilled at
\* once.  Nothing else of the kernel changes.
runVatStep(r, budgetLeft) ==
  /\ crank = "other"
  /\ Registered(vatID[r])
  /\ ~exhausted[r]
  /\ budgetLeft \/ EventsLeft
  /\ exhausted' = [exhausted EXCEPT ![r] =
       ~budgetLeft /\ ~meterRecord[r].refillIfExhausted]
  /\ UNCHANGED <<nextVatID, pc, vatID, bundle, meterRecord, terminated,
                 loadMode, chainValue, vatManagers, exports, nextKernelSlot,
                 runQueue, consoleLog, uncaught, calls, termCalls, crank,
                 running, unitCreated, thrown, imports>>

\* The external driver refills the meter of a vat explicitly.
refillMeter(r) ==
  /\ ~running
  /\ exhausted[r]
  /\ exhausted' = [exhausted EXCEPT ![r] = FALSE]
  /\ UNCHANGED <<nextVatID, pc, vatID, bundle, meterRecord, terminated,
                 loadMode, chainValue, vatManagers, exports, nextKernelSlot,
                 runQueue, consoleLog, uncaught, calls, termCalls, crank,
                 running, unitCreated, thrown, imports>>

----------------------------------------------------------------------------
(* Specifications *)

Next ==
  \/ \E c \in {"vatAdmin", "other"} : StartCrank(c)
  \/ EndUnit
  \/ EndCrank
  \/ \E r \in Requests, b \in Bundles : createVatDynamically(r, b)
  \/ \E r \in Requests : makeBuildRootObject(r)
  \/ \E r \in Requests : resumeBuildRootObject(r)
  \/ \E r \in Requests : makeVatManager(r)
  \/ \E r \in Requests : makeSuccessResponse(r)
  \/ \E r \in Requests : makeErrorResponse(r)
  \/ \E r \in Requests : sendResponse(r)
  \/ \E r \in Requests : catchError(r)
  \/ \E r \in Requests, e \in TerminationErrors : notifyTermination(r, e)
  \/ \E r \in Requests, budgetLeft \in BOOLEAN : runVatStep(r, budgetLeft)
  \/ \E r \in Requests : refillMeter(r)

Spec == Init /\ [][Next]_vars

\* The jobs of request r that are put in the promise queue by the previous
\* link of the chain.  No crank starts while one is pending.
ChainJob(r) ==
  \/ makeBuildRootObject(r)
  \/ makeVatManager(r)
  \/ makeSuccessResponse(r)
  \/ makeErrorResponse(r)
  \/ sendResponse(r)
  \/ catchError(r)

\* The requester's synchronous code returns, the event loop runs every job
\* of the promise queue, and importBundle's promise settles: the job that
\* resumes makeBuildRootObject is not run while synchronous code is on the
\* stack, but it is not passed over for ever, whatever cranks start in
\* between.
Fairness ==
  /\ WF_vars(EndUnit)
  /\ \A r \in Requests :
       /\ WF_vars(ChainJob(r))
       /\ SF_vars(resumeBuildRootObject(r))

FairSpec == Spec /\ Fairness

----------------------------------------------------------------------------
(* Vocabulary of the properties *)

\* The requests made so far.
Created == {r \in Requests : pc[r] # "idle"}

\* Positions, among the messages citing vatID v, of those with this method.
Messages(method, v) ==
  {i \in 1..Len(runQueue[v]) : runQueue[v][i].method = method}

\* Positions of all messages citing vatID v.
MessagesCiting(v) == 1..Len(runQueue[v])

IsFailureCallback(m) ==
  m.method = "newVatCallback" /\ DOMAIN m.args.body[2] = {"error"}

IsSuccessCallback(m) ==
  m.method = "newVatCallback" /\ DOMAIN m.args.body[2] = {"rootObject"}

ToAdminRoot(m) == m.vatID = AdminVatID /\ m.vatSlot = makeVatRootObjectSlot

\* The kernel services of the stages after the return of the vatID.
LaterServices ==
  {"makeVatEndowments", "importBundle", "addVatManager", "addExport",
   "queueToExport"}

CalledFor(service, v) == <<service, v>> \in calls

----------------------------------------------------------------------------
(* Properties *)

\* C1: for every creation request at most one newVatCallback message citing
\* its vatID is ever in the run queue, whatever the other requests and the
\* termination callbacks do; the message is there exactly when the chain has
\* reached Notified, and a chain that ended without sending has none.
C1_SingleNewVatCallback ==
  \A r \in Created :
    /\ Cardinality(Messages("newVatCallback", vatID[r])) <= 1
    /\ pc[r] = "Notified" <=> Cardinality(Messages("newVatCallback", vatID[r])) = 1

\* Two requests have been notified, and the termination callback of one of
\* them has queued its own message as well.
C1_Witness ==
  \E r, q \in Created :
    /\ r # q
    /\ pc[r] = "Notified" /\ pc[q] = "Notified"
    /\ Messages("vatTerminated", vatID[r]) # {}

\* C3: while the synchronous code that called createVatDynamically is still
\* on the stack, no later stage of a request it made has run: the chain has
\* not started (no typeof check of the bundle), none of makeVatEndowments,
\* importBundle, addVatManager, addExport, queueToExport has been called for
\* the vatID, nothing is registered or exported for it, and no message cites
\* it.  This holds for a plain-string bundle too.
C3_ReturnsBeforeLaterStages ==
  running =>
    \A r \in unitCreated :
      /\ pc[r] = "Requested"
      /\ vatID[r] # 0
      /\ \A service \in LaterServices : ~CalledFor(service, vatID[r])
      /\ ~Registered(vatID[r])
      /\ ~HasExport(vatID[r], makeVatRootObjectSlot)
      /\ MessagesCiting(vatID[r]) = {}

\* The caller has just made two requests, one of them with a plain string.
C3_Witness ==
  /\ running
  /\ \E r, q \in unitCreated :
       r # q /\ bundle[r] = StringBundle /\ bundle[q] = GoodBundle

\* The chain of request r has ended.
Finished(r) == pc[r] \in {"Notified", "Logged"}

Threw(site, r) == <<site, vatID[r]>> \in thrown

\* makeBuildRootObject or makeVatManager rejects for request r.
EarlyFailure(r) ==
  \/ bundle[r].typeof # "object"
  \/ ~bundle[r].loads
  \/ bundle[r].buildRootObject # "function"
  \/ Threw("addVatManager", r)

\* The error of that rejection.
ExpectedError(r) ==
  IF bundle[r].typeof # "object" THEN Error(InvalidBundleMessage)
  ELSE IF ~bundle[r].loads THEN ImportError
  ELSE IF bundle[r].buildRootObject # "function" THEN Error(MissingEntryPointMessage)
  ELSE AddVatManagerError

\* The chain ended with its one newVatCallback in the run queue.
NotifiedOnce(r) ==
  /\ pc[r] = "Notified"
  /\ Cardinality(Messages("newVatCallback", vatID[r])) = 1

\* The chain ended because addExport or sendResponse threw: the error went
\* to console.error and no newVatCallback cites the vatID.
LoggedOnly(r) ==
  /\ pc[r] = "Logged"
  /\ Threw("addExport", r) \/ Threw("sendResponse", r)
  /\ Messages("newVatCallback", vatID[r]) = {}
  /\ \E entry \in consoleLog :
       entry[1] = "error in createVatDynamically" /\ entry[2] = vatID[r]

\* C2 as stated: under fair scheduling every request made eventually reaches
\* Notified with exactly one newVatCallback for its vatID, whichever stage
\* succeeds or fails.
C2_AlwaysNotified ==
  \A r \in Requests : (pc[r] # "idle") ~> NotifiedOnce(r)

\* C2 amended: under fair scheduling every request made eventually ends,
\* either Notified with exactly one newVatCallback for its vatID, or, when
\* addExport or sendResponse threw, with the error logged and no
\* newVatCallback for its vatID.
C2_NotifiedOrLogged ==
  \A r \in Requests : (pc[r] # "idle") ~> (NotifiedOnce(r) \/ LoggedOnly(r))

\* One request has ended notified and another one logged only.
C2_Witness ==
  \E r, q \in Created : NotifiedOnce(r) /\ LoggedOnly(q)

\* C4 as stated: a vat whose notifyTermination has been invoked has exactly
\* one vatTerminated message, and no vat has more than one.
C4_ExactlyOneVatTerminated ==
  \A r \in Created :
    /\ Cardinality(Messages("vatTerminated", vatID[r])) <= 1
    /\ termCalls[r] >= 1 => Cardinality(Messages("vatTerminated", vatID[r])) = 1

\* C4 amended: no vatID has more than one vatTerminated message; the first
\* invocation of notifyTermination sets the flag and queues the message
\* unless vatNameToID or queueToExport throws in it, and every later
\* invocation changes nothing: after any number of invocations there is one
\* message, or none when the first invocation threw.
C4_AtMostOneVatTerminated ==
  \A r \in Created :
    /\ Cardinality(Messages("vatTerminated", vatID[r])) <= 1
    /\ terminated[r] <=> termCalls[r] >= 1
    /\ termCalls[r] >= 1 =>
         Cardinality(Messages("vatTerminated", vatID[r])) =
           IF Threw("notifyTermination", r) THEN 0 ELSE 1
    /\ termCalls[r] = 0 => Messages("vatTerminated", vatID[r]) = {}

\* notifyTermination of one vat has been invoked twice and one vatTerminated
\* message cites the vat.
C4_Witness ==
  \E r \in Created :
    /\ termCalls[r] = 2
    /\ Cardinality(Messages("vatTerminated", vatID[r])) = 1

\* C5: for a request whose bundle is a plain string, addVatManager and
\* addExport are never called, nothing is registered or exported for the
\* vatID, and every message citing the vatID is the failure newVatCallback.
C5_PlainStringBundle ==
  \A r \in Created :
    bundle[r].typeof = "string" =>
      /\ ~CalledFor("addVatManager", vatID[r])
      /\ ~CalledFor("addExport", vatID[r])
      /\ ~Registered(vatID[r])
      /\ ~HasExport(vatID[r], makeVatRootObjectSlot)
      /\ \A i \in MessagesCiting(vatID[r]) : IsFailureCallback(runQueue[vatID[r]][i])
      /\ Cardinality(MessagesCiting(vatID[r])) <= 1

\* A request with a plain string has been notified while another request
\* has been registered.
C5_Witness ==
  \E r, q \in Created :
    /\ bundle[r].typeof = "string"
    /\ pc[r] = "Notified"
    /\ Registered(vatID[q])

\* The loaded module of request r has no buildRootObject function.
LacksEntryPoint(r) ==
  /\ bundle[r].typeof = "object"
  /\ bundle[r].loads
  /\ bundle[r].buildRootObject # "function"

\* C6 as stated: a request whose module lacks buildRootObject never has
\* addVatManager or addExport called, and once its chain has ended there is
\* the failure newVatCallback whose error text names the missing export.
C6_EndsWithFailureCallback ==
  \A r \in Created :
    LacksEntryPoint(r) =>
      /\ ~CalledFor("addVatManager", vatID[r])
      /\ ~CalledFor("addExport", vatID[r])
      /\ Finished(r) =>
           \E i \in Messages("newVatCallback", vatID[r]) :
             /\ IsFailureCallback(runQueue[vatID[r]][i])
             /\ runQueue[vatID[r]][i].args.body[2].error =
                  ErrorToString(Error(MissingEntryPointMessage))

\* C6 amended: as C6, but the failure newVatCallback is there once the chain
\* has ended unless sendResponse threw; then no message cites the vatID and
\* the error is logged.
C6_FailureCallbackUnlessSendThrows ==
  \A r \in Created :
    LacksEntryPoint(r) =>
      /\ ~CalledFor("addVatManager", vatID[r])
      /\ ~CalledFor("addExport", vatID[r])
      /\ \A i \in MessagesCiting(vatID[r]) :
           /\ IsFailureCallback(runQueue[vatID[r]][i])
           /\ runQueue[vatID[r]][i].args.body[2].error =
                ErrorToString(Error(MissingEntryPointMessage))
      /\ Finished(r) =>
           IF Threw("sendResponse", r)
             THEN LoggedOnly(r) /\ MessagesCiting(vatID[r]) = {}
             ELSE NotifiedOnce(r)

\* A request whose module lacks buildRootObject has been notified.
C6_Witness ==
  \E r \in Created : LacksEntryPoint(r) /\ NotifiedOnce(r)

\* Some stage of the chain of request r threw or rejected.
StageFailed(r) ==
  EarlyFailure(r) \/ Threw("addExport", r) \/ Threw("sendResponse", r)

\* C7 as stated: whenever a stage of a request threw or rejected, the ended
\* chain has queued a failure newVatCallback for the vatID, and no exception
\* leaves the chain.
C7_EveryFailureNotified ==
  /\ uncaught = {}
  /\ \A r \in Created :
       Finished(r) /\ StageFailed(r) =>
         \E i \in Messages("newVatCallback", vatID[r]) :
           IsFailureCallback(runQueue[vatID[r]][i])

\* C7 amended: a rejection of makeBuildRootObject or makeVatManager is turned
\* by makeErrorResponse into the failure newVatCallback, which is queued
\* unless sendResponse throws; an exception of addExport or of sendResponse
\* is not turned into a notification: no newVatCallback cites the vatID and
\* the error is logged.  No exception leaves the chain.
C7_EarlyFailuresNotified ==
  /\ uncaught = {}
  /\ \A r \in Created :
       /\ EarlyFailure(r) /\ pc[r] = "Composed" =>
            chainValue[r] = ErrorArgs(r, ExpectedError(r))
       /\ EarlyFailure(r) /\ Finished(r) /\ ~Threw("sendResponse", r) =>
            /\ NotifiedOnce(r)
            /\ \A i \in Messages("newVatCallback", vatID[r]) :
                 IsFailureCallback(runQueue[vatID[r]][i])
       /\ Threw("addExport", r) \/ Threw("sendResponse", r) =>
            /\ Messages("newVatCallback", vatID[r]) = {}
            /\ pc[r] \in {"Rejected", "Logged"}
            /\ Finished(r) => LoggedOnly(r)

\* A request whose bundle does not evaluate has been notified of the failure,
\* and a request whose addExport threw has ended logged.
C7_Witness ==
  \E r, q \in Created :
    /\ bundle[r] = BrokenBundle
    /\ NotifiedOnce(r)
    /\ \A i \in Messages("newVatCallback", vatID[r]) :
         IsFailureCallback(runQueue[vatID[r]][i])
    /\ Threw("addExport", q)
    /\ LoggedOnly(q)

\* C8: every success newVatCallback goes to the root slot of the vatAdmin
\* vat, has the body [vatID, {rootObject: slot 0}] and as its slots exactly
\* the kernel slot the export table holds for (that vatID, root object); the
\* slot belongs to no other vat; and every request that ended Notified
\* without a failure has such a message.
C8_SuccessCallback ==
  /\ \A v \in VatIDs : \A i \in MessagesCiting(v) :
       IsSuccessCallback(runQueue[v][i]) =>
         LET m == runQueue[v][i]
         IN /\ ToAdminRoot(m)
            /\ m.args.body =
                 <<v, [rootObject |-> [qclass |-> "slot", index |-> 0]]>>
            /\ \E r \in Created : vatID[r] = v /\ pc[r] = "Notified"
            /\ Registered(v)
            /\ HasExport(v, makeVatRootObjectSlot)
            /\ m.args.slots = <<ExportOf(v, makeVatRootObjectSlot).kernelSlot>>
            /\ \A e \in exports :
                 e.kernelSlot = m.args.slots[1] =>
                   e.vatID = v /\ e.vatSlot = makeVatRootObjectSlot
  /\ \A r \in Created :
       pc[r] = "Notified" /\ ~EarlyFailure(r) =>
         \E i \in Messages("newVatCallback", vatID[r]) :
           IsSuccessCallback(runQueue[vatID[r]][i])

\* Two vats have been created; the vat requested second got its slot first.
C8_Witness ==
  \E v, w \in VatIDs : \E i \in MessagesCiting(v), j \in MessagesCiting(w) :
    /\ IsSuccessCallback(runQueue[v][i]) /\ IsSuccessCallback(runQueue[w][j])
    /\ v < w
    /\ runQueue[v][i].args.slots[1] > runQueue[w][j].args.slots[1]

\* C9: every failure newVatCallback goes to the root slot of the vatAdmin
\* vat, has the body [vatID, {error: string}] with the vatID of a request
\* whose makeBuildRootObject or makeVatManager rejected, and no slots; no
\* export slot exists for that vatID.
C9_FailureCallback ==
  \A v \in VatIDs : \A i \in MessagesCiting(v) :
    IsFailureCallback(runQueue[v][i]) =>
      LET m == runQueue[v][i]
      IN /\ ToAdminRoot(m)
         /\ Len(m.args.body) = 2
         /\ m.args.body[1] = v
         /\ \E r \in Created :
              /\ vatID[r] = v
              /\ EarlyFailure(r)
              /\ m.args.body[2] = [error |-> ErrorToString(ExpectedError(r))]
         /\ m.args.slots = <<>>
         /\ ~CalledFor("addExport", v)
         /\ \A e \in exports : e.vatID # v

\* The failure newVatCallback of a request whose addVatManager threw is
\* queued while another vat holds an export slot.
C9_Witness ==
  \E r \in Created :
    /\ Threw("addVatManager", r)
    /\ \E i \in Messages("newVatCallback", vatID[r]) :
         IsFailureCallback(runQueue[vatID[r]][i])
    /\ exports # {}

\* C10 as stated: the error field of the failure newVatCallback of a request
\* with a plain string is the message of the error thrown, and likewise for
\* a module without buildRootObject.
C10_ErrorFieldIsMessage ==
  \A r \in Created :
    \A i \in Messages("newVatCallback", vatID[r]) :
      /\ bundle[r].typeof = "string" =>
           runQueue[vatID[r]][i].args.body[2] = [error |-> InvalidBundleMessage]
      /\ LacksEntryPoint(r) =>
           runQueue[vatID[r]][i].args.body[2] = [error |-> MissingEntryPointMessage]

\* C10 amended: the error field is the string conversion of the Error
\* thrown, that is "Error: " followed by its message.
C10_ErrorFieldIsErrorString ==
  \A r \in Created :
    \A i \in Messages("newVatCallback", vatID[r]) :
      /\ bundle[r].typeof = "string" =>
           runQueue[vatID[r]][i].args.body[2] =
             [error |-> "Error: createVatDynamically() requires bundle, not a plain string"]
      /\ LacksEntryPoint(r) =>
           runQueue[vatID[r]][i].args.body[2] =
             [error |-> "Error: vat source bundle does not export buildRootObject function"]

\* Both failure notifications are in the run queue.
C10_Witness ==
  \E r, q \in Created :
    /\ bundle[r].typeof = "string" /\ NotifiedOnce(r)
    /\ LacksEntryPoint(q) /\ NotifiedOnce(q)

\* The vatTerminated message for vatID v when notifyTermination is called
\* with Error("boom"), and when it is called without an error.
TerminatedWithError(v) ==
  [vatID |-> AdminVatID,
   vatSlot |-> [type |-> "object", allocatedByVat |-> TRUE, id |-> 0],
   method |-> "vatTerminated",
   args |-> [kind |-> "args",
             body |-> <<v, [qclass |-> "error", name |-> "Error",
                            message |-> "boom"]>>,
             slots |-> <<>>],
   resultPolicy |-> "logFailure"]

TerminatedWithoutError(v) ==
  [vatID |-> AdminVatID,
   vatSlot |-> [type |-> "object", allocatedByVat |-> TRUE, id |-> 0],
   method |-> "vatTerminated",
   args |-> [kind |-> "args", body |-> <<v, [qclass |-> "undefined"]>>,
             slots |-> <<>>],
   resultPolicy |-> "logFailure"]

\* C11: every vatTerminated message in the run queue goes to the root slot
\* of the vatAdmin vat, has no slots and the body [vatID, d] with the vatID
\* of a registered vat whose notifyTermination was invoked, d being an error
\* descriptor or the undefined marker; and each call of notifyTermination
\* that queues a message queues the one for its own vatID and its own
\* argument: name and message of the error, or the marker when there is none.
C11_VatTerminatedShape ==
  /\ [](\A r \in Created : \A i \in Messages("vatTerminated", vatID[r]) :
          /\ runQueue[vatID[r]][i] \in
               {TerminatedWithError(vatID[r]), TerminatedWithoutError(vatID[r])}
          /\ terminated[r]
          /\ Registered(vatID[r]))
  /\ [][\A r \in Requests, e \in TerminationErrors :
          notifyTermination(r, e) /\ runQueue' # runQueue =>
            runQueue' = [runQueue EXCEPT ![vatID[r]] =
              Append(@, IF e = NoValue THEN TerminatedWithoutError(vatID[r])
                                      ELSE TerminatedWithError(vatID[r]))]]_vars

\* notifyTermination of a notified vat was called with Error("boom") and its
\* message is the last one citing the vat.
C11_Witness ==
  \E r \in Created :
    /\ NotifiedOnce(r)
    /\ runQueue[vatID[r]][Len(runQueue[vatID[r]])] = TerminatedWithError(vatID[r])

\* The vatID that opens the body a chain carries to sendResponse.
ComposedFor(r) == chainValue[r].body[1]

\* C12: the vatIDs of the requests made are pairwise distinct; a request's
\* vatID is set when the request is made and never changes afterwards; and
\* every later stage uses it: the manager registered with the request's
\* termination callback, the export made by its chain, the response its chain
\* composes and the newVatCallback it queues all carry that vatID.
C12_DistinctStableVatIDs ==
  /\ [](\A r, q \in Created : r # q => vatID[r] # vatID[q])
  /\ [](\A r \in Requests : (r \in Created) <=> (vatID[r] \in VatIDs))
  /\ [][\A r \in Created : vatID'[r] = vatID[r]]_vars
  /\ [](\A m \in vatManagers : m.vatID = vatID[m.notifyTermination])
  /\ [](\A r \in Created :
          /\ pc[r] \in {"Registered", "Composed", "Notified"} /\ ~EarlyFailure(r)
               => Registered(vatID[r])
          /\ pc[r] = "Composed" => ComposedFor(r) = vatID[r]
          /\ pc[r] = "Notified" => Messages("newVatCallback", vatID[r]) # {})
  /\ [](\A e \in exports : CalledFor("addExport", e.vatID))

\* Every request has been made; the first one is still loading its bundle
\* while one made after it has been registered and notified.
C12_Witness ==
  /\ Created = Requests
  /\ pc[1] = "Loading"
  /\ \E q \in Created : pc[q] = "Notified" /\ Registered(vatID[q])

\* C13: the meter of every request has refillEachCrank and refillIfExhausted
\* false; a step of a registered vat that uses up the budget sets the
\* exhausted flag and changes neither the registry nor the run queue; the
\* driver runs no step of a vat whose meter is exhausted; the flag is cleared
\* only by the explicit refill of the external driver, not by the start of a
\* crank; and no manager ever leaves the registry, so the vat stays registered.
C13_ExhaustedStaysRegistered ==
  /\ [](\A r \in Created :
          /\ ~meterRecord[r].refillEachCrank /\ ~meterRecord[r].refillIfExhausted
          /\ exhausted[r] => Registered(vatID[r]))
  /\ [][\A r \in Requests :
          /\ ~exhausted[r] /\ exhausted'[r] =>
               vatManagers' = vatManagers /\ runQueue' = runQueue
          /\ exhausted[r] /\ ~exhausted'[r] => refillMeter(r)
          /\ exhausted[r] => \A budgetLeft \in BOOLEAN : ~runVatStep(r, budgetLeft)
          /\ vatManagers \subseteq vatManagers']_vars

\* The meter of a registered vat ran out in an earlier crank; the requester's
\* crank is now running, the vat is still exhausted and registered, and no
\* vatTerminated message cites it.
C13_Witness ==
  \E r \in Created :
    /\ exhausted[r]
    /\ crank = "vatAdmin"
    /\ Registered(vatID[r])
    /\ Messages("vatTerminated", vatID[r]) = {}

\* The failure response for the exception of addVatManager.
RegistrationFailure(r) ==
  [kind |-> "args",
   body |-> <<vatID[r], [error |-> "Error: addVatManager failed"]>>,
   slots |-> <<>>]

\* C14: when addVatManager (which builds the dispatch handler) throws for a
\* request, no manager for its vatID is in the registry then or later,
\* addExport is never called for it and nothing is exported, and the chain
\* takes the failure path: makeErrorResponse composes the failure response
\* with that error, sendResponse is given it, every message citing the vatID
\* is that failure newVatCallback, and the chain ends Notified with it unless
\* sendResponse itself throws.
C14_RegistrationAllOrNothing ==
  \A r \in Created :
    Threw("addVatManager", r) =>
      /\ ~Registered(vatID[r])
      /\ \A m \in vatManagers : m.notifyTermination # r
      /\ ~CalledFor("addExport", vatID[r])
      /\ \A e \in exports : e.vatID # vatID[r]
      /\ pc[r] \in {"Failed", "Composed", "Notified", "Rejected", "Logged"}
      /\ pc[r] = "Failed" => chainValue[r] = AddVatManagerError
      /\ pc[r] = "Composed" => chainValue[r] = RegistrationFailure(r)
      /\ pc[r] \in {"Rejected", "Logged"} => Threw("sendResponse", r)
      /\ \A i \in MessagesCiting(vatID[r]) :
           /\ runQueue[vatID[r]][i].method = "newVatCallback"
           /\ runQueue[vatID[r]][i].args = RegistrationFailure(r)
      /\ pc[r] = "Notified" => Cardinality(MessagesCiting(vatID[r])) = 1

\* addVatManager threw for one request, which has been notified of the
\* failure and is not registered, while another vat is registered.
C14_Witness ==
  \E r \in Created :
    /\ Threw("addVatManager", r)
    /\ pc[r] = "Notified"
    /\ ~Registered(vatID[r])
    /\ vatManagers # {}

\* addExport is called for vatID v in this step.
CallsAddExport(v) ==
  ~CalledFor("addExport", v) /\ <<"addExport", v>> \in calls'

\* A newVatCallback citing vatID v is queued in this step.
QueuesNewVatCallback(v) ==
  /\ Len(runQueue'[v]) = Len(runQueue[v]) + 1
  /\ runQueue'[v][Len(runQueue'[v])].method = "newVatCallback"

\* C15: addExport is called for a vatID only when addVatManager has been
\* called for it and has returned, so that the vatID is in the registry at
\* the call; a newVatCallback is queued for a vatID only when the
\* registration stage is over: the success callback when the vat is
\* registered and exported, the failure callback when makeBuildRootObject or
\* makeVatManager has rejected and the vat is not registered.
C15_StageOrdering ==
  /\ [](\A r \in Created :
          /\ CalledFor("addExport", vatID[r]) =>
               /\ CalledFor("addVatManager", vatID[r])
               /\ ~Threw("addVatManager", r)
               /\ Registered(vatID[r])
          /\ \A i \in Messages("newVatCallback", vatID[r]) :
               IF IsSuccessCallback(runQueue[vatID[r]][i])
                 THEN /\ Registered(vatID[r])
                      /\ HasExport(vatID[r], makeVatRootObjectSlot)
                 ELSE /\ EarlyFailure(r)
                      /\ ~Registered(vatID[r])
                      /\ CalledFor("addVatManager", vatID[r])
                           <=> Threw("addVatManager", r))
  /\ [][\A r \in Created :
          /\ CallsAddExport(vatID[r]) =>
               pc[r] = "Registered" /\ Registered(vatID[r])
          /\ QueuesNewVatCallback(vatID[r]) =>
               /\ pc[r] = "Composed"
               /\ Registered(vatID[r]) <=> ~EarlyFailure(r)
               /\ Registered(vatID[r]) <=> CalledFor("addExport", vatID[r])]_vars

\* The root object of one vat is exported and its callback not yet queued,
\* while another request has been notified of a failure before registration.
C15_Witness ==
  \E r, q \in Created :
    /\ pc[r] = "Composed"
    /\ HasExport(vatID[r], makeVatRootObjectSlot)
    /\ pc[q] = "Notified"
    /\ ~CalledFor("addVatManager", vatID[q])

\* The composing or enqueuing of the notification of request r threw.
NotificationFailed(r) == Threw("addExport", r) \/ Threw("sendResponse", r)

\* The error of that exception.
NotificationError(r) ==
  IF Threw("addExport", r) THEN Error("addExport failed")
                           ELSE Error("queueToExport failed")

\* C16: once addExport (in makeSuccessResponse) or vatNameToID/queueToExport
\* (in sendResponse) has thrown for a request, no link that composes or sends
\* runs again for it and no newVatCallback citing its vatID is ever in the
\* run queue; the chain goes to its catch, which passes the error to
\* console.error once, and ends there: the exception leaves the chain
\* nowhere else.  After an exception of addExport, sendResponse is not run.
C16_NotificationErrorOnlyLogged ==
  /\ [](\A r \in Created :
          NotificationFailed(r) =>
            /\ Messages("newVatCallback", vatID[r]) = {}
            /\ pc[r] \in {"Rejected", "Logged"}
            /\ r \notin uncaught
            /\ Threw("addExport", r) => ~CalledFor("queueToExport", vatID[r])
            /\ pc[r] = "Rejected" => chainValue[r] = NotificationError(r)
            /\ {entry \in consoleLog : entry[2] = vatID[r]} =
                 IF pc[r] = "Logged"
                   THEN {<<"error in createVatDynamically", vatID[r],
                           NotificationError(r)>>}
                   ELSE {})
  /\ [][\A r \in Created :
          NotificationFailed(r) =>
            /\ ~makeSuccessResponse(r) /\ ~makeErrorResponse(r) /\ ~sendResponse(r)
            /\ Messages("newVatCallback", vatID[r])' = {}]_vars

\* The failure notification of a request with a plain string could not be
\* queued: the error has been logged and no message cites the vatID.
C16_Witness ==
  \E r \in Created :
    /\ bundle[r] = StringBundle
    /\ Threw("sendResponse", r)
    /\ pc[r] = "Logged"
    /\ MessagesCiting(vatID[r]) = {}

\* A step of this subsystem for request r: the request itself, a link of
\* its chain, or its termination callback.
SubsystemStep(r) ==
  \/ \E b \in Bundles : createVatDynamically(r, b)
  \/ ChainJob(r)
  \/ resumeBuildRootObject(r)
  \/ \E e \in TerminationErrors : notifyTermination(r, e)

\* C17: every request has a meter record of its own, with refillEachCrank
\* and refillIfExhausted false, from the moment the request is made (while
\* its caller is still running); the record never changes afterwards; the
\* getMeter given to importBundle for the vat is the getMeter of that record,
\* and the record registered with the vat's manager is that same record; no
\* step of this subsystem changes the exhausted flag of any meter.
C17_OwnMeterRecord ==
  /\ [](\A r \in Created :
          /\ meterRecord[r] # NoMeter
          /\ ~meterRecord[r].refillEachCrank
          /\ ~meterRecord[r].refillIfExhausted
          /\ \A q \in Created :
               q # r => meterRecord[q].getMeter # meterRecord[r].getMeter
          /\ \A i \in imports :
               i.filePrefix = vatID[r] => i.getMeter = meterRecord[r].getMeter
          /\ \A m \in vatManagers :
               m.vatID = vatID[r] =>
                 /\ m.meterRecord = meterRecord[r]
                 /\ importOptions(vatID[r], m.meterRecord.getMeter) \in imports)
  /\ [][\A r \in Created : meterRecord'[r] = meterRecord[r]]_vars
  /\ [][(\E r \in Requests : SubsystemStep(r)) => exhausted' = exhausted]_vars

\* Two vats are registered, each with the meter record its bundle was
\* loaded with, and one of the meters is exhausted.
C17_Witness ==
  /\ \E r, q \in Created :
       r # q /\ Registered(vatID[r]) /\ Registered(vatID[q]) /\ exhausted[q]
  /\ Cardinality(imports) >= 2

\* The chain of request r waits for an importBundle that settles late.
AwaitsLateLoad(r) == pc[r] = "Loading" /\ loadMode[r] = "late"

\* The chain of request r moves in this step.
Moves(r) == pc'[r] # pc[r]

\* C18: no crank starts or ends while a chain has yet to run a link, the
\* wait for a prompt importBundle included: cranks change only when every
\* chain has ended or waits for a late importBundle.  So a request whose
\* bundle loads promptly goes from createVatDynamically to the queuing of
\* its newVatCallback inside the requester's crank: before its load it is
\* found in that crank only, and in another vat's crank a link runs, and
\* queueToExport is called for a newVatCallback, only for a request that went
\* through importBundle and resumed there.  Every step moves the chain of
\* at most one request, by one link.
C18_PromptChainsStayInCrank ==
  /\ [][crank' # crank =>
          \A r \in Created : Finished(r) \/ AwaitsLateLoad(r)]_vars
  /\ [](\A r \in Created :
          /\ pc[r] = "Requested" => crank = "vatAdmin"
          /\ pc[r] = "Loading" /\ loadMode[r] = "prompt" => crank = "vatAdmin"
          /\ crank # "vatAdmin" /\ ~Finished(r) =>
               CalledFor("importBundle", vatID[r]))
  /\ [][\A r \in Created :
          /\ Moves(r) /\ crank # "vatAdmin" => CalledFor("importBundle", vatID[r])
          /\ QueuesNewVatCallback(vatID[r]) /\ bundle[r].typeof = "string" =>
               crank = "vatAdmin"
          /\ Moves(r) =>
               /\ \A q \in Requests : q # r => ~Moves(q)
               /\ crank' = crank /\ ~running /\ ~running']_vars

\* In the requester's crank the response of a request whose bundle went
\* through importBundle is composed and about to be queued, while another
\* request waits for a late load.
C18_Witness ==
  \E r, q \in Created :
    /\ crank = "vatAdmin"
    /\ pc[r] = "Composed"
    /\ CalledFor("importBundle", vatID[r])
    /\ AwaitsLateLoad(q)

\* A vatTerminated message citing vatID v is queued in this step.
QueuesVatTerminated(v) ==
  /\ Len(runQueue'[v]) = Len(runQueue[v]) + 1
  /\ runQueue'[v][Len(runQueue'[v])].method = "vatTerminated"

\* C19 as stated: every vatTerminated message has the newVatCallback of the
\* same vatID before it in the run queue.
C19_TerminatedAfterCallback ==
  \A r \in Created :
    \A i \in Messages("vatTerminated", vatID[r]) :
      \E j \in Messages("newVatCallback", vatID[r]) : j < i

\* C19 amended: a vatTerminated message is queued only for a vat that
\* addVatManager has registered, and at that moment the newVatCallback of
\* the same vatID is in the run queue exactly when the vat's chain has
\* already run sendResponse; when the termination callback fires between
\* registration and sendResponse, or after addExport or sendResponse threw,
\* the vatTerminated message is queued with no newVatCallback before it.  A
\* newVatCallback that follows a vatTerminated message is a success callback.
C19_TerminatedAfterRegistration ==
  /\ [][\A r \in Created :
          QueuesVatTerminated(vatID[r]) =>
            /\ Registered(vatID[r])
            /\ pc[r] \in {"Registered", "Composed", "Notified", "Rejected", "Logged"}
            /\ Messages("newVatCallback", vatID[r]) # {} <=> pc[r] = "Notified"]_vars
  /\ [](\A r \in Created :
          \A i \in Messages("vatTerminated", vatID[r]) :
            /\ Registered(vatID[r])
            /\ \A j \in Messages("newVatCallback", vatID[r]) :
                 i < j => IsSuccessCallback(runQueue[vatID[r]][j]))

\* The termination callback of a vat fired between its registration and
\* sendResponse: its vatTerminated message is first in the run queue and
\* its success newVatCallback second.
C19_Witness ==
  \E r \in Created :
    /\ Len(runQueue[vatID[r]]) = 2
    /\ runQueue[vatID[r]][1].method = "vatTerminated"
    /\ IsSuccessCallback(runQueue[vatID[r]][2])

\* The termination callback of request r is invoked in this step.
Terminates(r) == \E e \in TerminationErrors : notifyTermination(r, e)

FailsBeforeRegistration(r) ==
  \/ bundle[r].typeof # "object"
  \/ ~bundle[r].loads
  \/ bundle[r].buildRootObject # "function"

\* C21: a vatTerminated message is in the run queue only for a vatID for
\* which addVatManager was called, and a termination callback has run only
\* for such a vatID; for a request that fails before registration
\* addVatManager is never called, its termination callback never runs and no
\* vatTerminated message cites its vatID.
C21_TerminatedOnlyAfterAddVatManager ==
  /\ \A v \in VatIDs :
       Messages("vatTerminated", v) # {} => CalledFor("addVatManager", v)
  /\ \A r \in Created :
       /\ termCalls[r] > 0 \/ terminated[r] => CalledFor("addVatManager", vatID[r])
       /\ FailsBeforeRegistration(r) =>
            /\ ~CalledFor("addVatManager", vatID[r])
            /\ ~Registered(vatID[r])
            /\ termCalls[r] = 0 /\ ~terminated[r]
            /\ Messages("vatTerminated", vatID[r]) = {}

\* One request failed before registration and its chain has queued the
\* failure newVatCallback, with no vatTerminated message for its vatID,
\* while another vat was registered and terminated and has its message.
C21_Witness ==
  \E r, q \in Created :
    /\ FailsBeforeRegistration(r)
    /\ pc[r] = "Notified"
    /\ \E i \in Messages("newVatCallback", vatID[r]) :
         IsFailureCallback(runQueue[vatID[r]][i])
    /\ Messages("vatTerminated", vatID[r]) = {}
    /\ CalledFor("addVatManager", vatID[q])
    /\ terminated[q]
    /\ Messages("vatTerminated", vatID[q]) # {}

====
